---- MODULE Spec2Model ----
(***************************************************************************)
(* Model of src/main.py: the text-to-speech page with its music mixer.     *)
(*                                                                         *)
(* An audio segment is modelled at the resolution of the audio library's   *)
(* own interface, the millisecond: its data is a sequence with one element *)
(* per millisecond of audio, so len(segment) is the length of the sequence.*)
(* A voice element is the index of the millisecond in the decoded voice.   *)
(* A music element is a record [src, gain, fin, fout]:                     *)
(*   src   the index of the millisecond in the decoded music file,         *)
(*   gain  the sum of the gains applied to it, in hundredths of a dB,      *)
(*   fin   the step i of the fade-in loop that scaled it (its factor is    *)
(*         from_power + scale_step * i), or NoFade,                        *)
(*   fout  the step i of the fade-out loop that scaled it, or NoFade.      *)
(* A mixed element is <<voice element, music element>>: their sum.         *)
(***************************************************************************)
EXTENDS Integers, Sequences, FiniteSets, TLC

\* ------------------------------------------------------------------ bounds

\* Track lengths are drawn in steps of LenStep milliseconds.
LenStep == 1000
MaxVoiceSteps == 7
MaxMusicSteps == 8
\* Button presses in one session.
MaxRuns == 2

\* ------------------------------------------------------- program constants

\* music.fade_in(3000), music.fade_out(3000)
FADE_MS == 3000

NoFade == 0 - 1

Min(a, b) == IF a < b THEN a ELSE b

\* -------------------------------------------- the audio library, as it is used

\* Python's data[a:b] on a sequence of n elements: the clamped 0-based bounds.
PyIndex(n, x) ==
    IF x < 0 THEN (IF x + n < 0 THEN 0 ELSE x + n)
    ELSE (IF x > n THEN n ELSE x)

PySlice(data, a, b) ==
    LET lo == PyIndex(Len(data), a)
        hi == PyIndex(Len(data), b)
    IN  IF hi <= lo THEN <<>> ELSE SubSeq(data, lo + 1, hi)

\* AudioSegment._parse_position: a negative position counts from the end,
\* once; what is still negative is left to the data slice.
ParsePosition(n, val) == IF val < 0 THEN n - (0 - val) ELSE val

\* AudioSegment.__getitem__ with a slice [start:stop] of milliseconds.
GetSlice(data, start, stop) ==
    LET n == Len(data)
    IN  PySlice(data, ParsePosition(n, Min(start, n)), ParsePosition(n, Min(stop, n)))

\* AudioSegment.__getitem__ with one millisecond: [ms : ms + 1], not clamped.
GetItem(data, ms) ==
    LET n == Len(data)
    IN  PySlice(data, ParsePosition(n, ms), ParsePosition(n, ms + 1))

\* audioop.mul of a chunk by the factor of step i of a fade loop.
Scale(chunk, slot, i) ==
    [k \in 1..Len(chunk) |-> [chunk[k] EXCEPT ![slot] = i]]

\* The fade loop, for i in range(duration): output.append(scaled self[start + i]),
\* as the concatenation of its chunks for i in lo..hi. self[ms] is empty
\* for every ms >= len(self) and for every ms < -2 * len(self), so a range
\* that lies wholly there adds nothing.
RECURSIVE FadeChunks(_, _, _, _, _)
FadeChunks(data, start, lo, hi, slot) ==
    IF lo > hi THEN <<>>
    ELSE IF start + lo >= Len(data) \/ start + hi < 0 - 2 * Len(data) THEN <<>>
    ELSE IF lo = hi THEN Scale(GetItem(data, start + lo), slot, lo)
    ELSE LET mid == (lo + hi) \div 2
         IN  FadeChunks(data, start, lo, mid, slot)
                 \o FadeChunks(data, start, mid + 1, hi, slot)

\* AudioSegment.fade_in(duration) = fade(from_gain=-120, duration, start=0):
\* start = min(len, 0), end = start + duration; the part before start is scaled
\* by from_power (step 0), the part after end is left as it is.
fade_in(data, duration) ==
    LET n == Len(data)
        start == Min(n, 0)
        end == start + duration
    IN  Scale(GetSlice(data, 0, start), "fin", 0)
            \o FadeChunks(data, start, 0, duration - 1, "fin")
            \o GetSlice(data, end, n)

\* AudioSegment.fade_out(duration) = fade(to_gain=-120, duration, end=inf):
\* end = min(len, inf), start = end - duration (not normalised when negative);
\* the part before start is left as it is, the part after end is scaled by the
\* final factor (step duration).
fade_out(data, duration) ==
    LET n == Len(data)
        end == n
        start == end - duration
    IN  GetSlice(data, 0, start)
            \o FadeChunks(data, start, 0, duration - 1, "fout")
            \o Scale(GetSlice(data, end, n), "fout", duration)

\* segment + dB: apply_gain to every element.
ApplyGain(data, db) ==
    [k \in 1..Len(data) |-> [data[k] EXCEPT !.gain = @ + db]]

\* segment * times: the data repeated.
Repeat(data, times) ==
    [k \in 1..(times * Len(data)) |-> data[((k - 1) % Len(data)) + 1]]

\* seg1.overlay(seg2): seg2 is cut to seg1's length and added from position 0;
\* what of seg1 lies beyond seg2 is copied.
OverlayAppend(seg1, seg2) ==
    seg1 \o seg2

Overlay(seg1, seg2) ==
    [k \in 1..Len(seg1) |-> IF k <= Len(seg2) THEN <<seg1[k], seg2[k]>> ELSE seg1[k]]

\* --------------------------------------------------------------- files

\* An audio file: ok (it decodes), and what it decodes to.
AudioFile(ok, len, rate, ch) ==
    [ok |-> ok, len |-> len, frame_rate |-> rate, channels |-> ch]

BadFile == AudioFile(FALSE, 0, 0, 0)

DecodeVoice(file) ==
    [frame_rate |-> file.frame_rate, channels |-> file.channels,
     data |-> [k \in 1..file.len |-> k]]

DecodeMusic(file) ==
    [frame_rate |-> file.frame_rate, channels |-> file.channels,
     data |-> [k \in 1..file.len |->
                [src |-> k, gain |-> 0, fin |-> NoFade, fout |-> NoFade]]]

NoTrack == [frame_rate |-> 0, channels |-> 0, data |-> <<>>]

\* ---------------------------------------------------------- mix_with_music

\* volume_db = -30 + (music_volume_pct * 0.35), in hundredths of a dB.
VolumeDbFlat(music_volume_pct) == -3000 + (music_volume_pct * 30)

VolumeDb(music_volume_pct) == -3000 + (music_volume_pct * 35)

\* The number of copies music *= (len(voice) // len(music)) + 1 leaves.
LoopTimesFloor(voice_len, music_len) == voice_len \div music_len

LoopTimes(voice_len, music_len) == (voice_len \div music_len) + 1

\* Lines 80-82: loop when shorter, then music[:len(voice)].
MatchDuration(music, voice_len) ==
    LET looped == IF Len(music) < voice_len
                  THEN Repeat(music, LoopTimes(voice_len, Len(music)))
                  ELSE music
    IN  GetSlice(looped, 0, voice_len)

\* Lines 85-88.
ApplyFades(music, fin, fout) ==
    LET a == IF fin THEN fade_in(music, FADE_MS) ELSE music
    IN  IF fout THEN fade_out(a, FADE_MS) ELSE a

\* Lines 77-88 on the music data: gain, duration match, fades. The result
\* keeps the duration-matched music beside the faded one.
ProcessMusicFadeFirst(music, voice_len, music_volume_pct, fin, fout) ==
    LET gained == ApplyGain(music, VolumeDb(music_volume_pct))
        faded == ApplyFades(gained, fin, fout)
    IN  [matched |-> MatchDuration(gained, voice_len),
         music |-> MatchDuration(faded, voice_len)]

ProcessMusic(music, voice_len, music_volume_pct, fin, fout) ==
    LET gained == ApplyGain(music, VolumeDb(music_volume_pct))
        matched == MatchDuration(gained, voice_len)
    IN  [matched |-> matched, music |-> ApplyFades(matched, fin, fout)]

\* The library calls of lines 72-90, in order.
MixSteps(voice, music, fin, fout) ==
    (IF voice.frame_rate # music.frame_rate THEN <<"set_frame_rate">> ELSE <<>>)
      \o (IF voice.channels # music.channels THEN <<"set_channels">> ELSE <<>>)
      \o <<"gain">>
      \o (IF Len(music.data) < Len(voice.data) THEN <<"loop">> ELSE <<>>)
      \o <<"truncate">>
      \o (IF fin THEN <<"fade_in">> ELSE <<>>)
      \o (IF fout THEN <<"fade_out">> ELSE <<>>)
      \o <<"overlay">>

\* Lines 72-90: the music aligned to the voice's format, gained, matched,
\* faded, and overlaid on the voice.
MixMusic(voice, music, music_volume_pct, fin, fout) ==
    LET p == ProcessMusic(music.data, Len(voice.data), music_volume_pct, fin, fout)
    IN  [mixed |-> [voice EXCEPT !.data = Overlay(voice.data, p.music)],
         matched |-> p.matched, music |-> p.music,
         loops |-> IF Len(music.data) < Len(voice.data)
                   THEN LoopTimes(Len(voice.data), Len(music.data)) ELSE 1,
         steps |-> MixSteps(voice, music, fin, fout)]

\* Lines 69-90: mixed = voice at volume 0, the overlay otherwise.
MixedNoShortcut(voice, music, music_volume_pct, fin, fout) ==
    MixMusic(voice, music, music_volume_pct, fin, fout)

Mixed(voice, music, music_volume_pct, fin, fout) ==
    IF music_volume_pct = 0
    THEN [mixed |-> voice, matched |-> <<>>, music |-> <<>>, loops |-> 0,
          steps |-> <<>>]
    ELSE MixMusic(voice, music, music_volume_pct, fin, fout)

\* Line 65: len(voice) == 0 or len(music) == 0.
EmptyInputVoiceOnly(voice, music) ==
    Len(voice.data) = 0

EmptyInput(voice, music) ==
    Len(voice.data) = 0 \/ Len(music.data) = 0

MixFailure(error, steps) ==
    [success |-> FALSE, error |-> error, steps |-> steps, written |-> FALSE,
     loops |-> 0, matched |-> <<>>, music |-> <<>>, mixed |-> NoTrack]

NotCalled == MixFailure("not called", <<>>)

\* mix_with_music(voice_path, music_path, output_path, music_volume_pct,
\* fade_in, fade_out). export is what mixed.export does: "ok", "raise", or
\* "empty" (it leaves a file of size 0). The result is the return value
\* (success) with what the call did: the error it reported, the library calls
\* it made in order, whether output_path was opened for writing, and the
\* tracks it computed. Every exception ends in the except of line 95; the
\* division of line 81 raises one when the music is empty.
mix_with_music(voice_file, music_file, music_volume_pct, fin, fout, export) ==
    IF ~voice_file.ok
    THEN MixFailure("exception", <<"decode_voice">>)
    ELSE IF ~music_file.ok
    THEN MixFailure("exception", <<"decode_voice", "decode_music">>)
    ELSE LET voice == DecodeVoice(voice_file)
             music == DecodeMusic(music_file)
         IN  IF EmptyInput(voice, music)
             THEN MixFailure("empty", <<"decode_voice", "decode_music">>)
             ELSE IF /\ music_volume_pct # 0
                     /\ Len(music.data) = 0
                     /\ Len(music.data) < Len(voice.data)
             THEN MixFailure("exception", <<"decode_voice", "decode_music", "gain">>)
             ELSE LET m == Mixed(voice, music, music_volume_pct, fin, fout)
                  IN  [success |-> export = "ok",
                       error |-> IF export = "raise" THEN "exception"
                                 ELSE IF export = "empty" THEN "no output"
                                 ELSE "none",
                       steps |-> <<"decode_voice", "decode_music">> \o m.steps
                                     \o <<"export">>,
                       written |-> TRUE,
                       loops |-> m.loops,
                       matched |-> m.matched, music |-> m.music,
                       mixed |-> m.mixed]

\* -------------------------------------------------------- test_audio_files

\* test_audio_files(voice_path, music_path): the first 5000 ms of the voice
\* over the music at -20 dB, exported to a temporary file of its own and
\* played. test_export is what test_mixed.export does: "ok" or "raise".
\* Every exception is caught (line 114): ret is the return value, raised says
\* whether an exception leaves the function, tmp counts the temporary files
\* it created.
test_audio_files_Uncaught(voice_file, music_file, test_export) ==
    [ret |-> voice_file.ok /\ music_file.ok /\ test_export = "ok",
     raised |-> ~(voice_file.ok /\ music_file.ok /\ test_export = "ok"),
     tmp |-> IF voice_file.ok /\ music_file.ok THEN 1 ELSE 0,
     played |-> voice_file.ok /\ music_file.ok /\ test_export = "ok",
     clip |-> <<>>]

test_audio_files(voice_file, music_file, test_export) ==
    IF ~voice_file.ok \/ ~music_file.ok
    THEN [ret |-> FALSE, raised |-> FALSE, tmp |-> 0, played |-> FALSE, clip |-> <<>>]
    ELSE LET voice == DecodeVoice(voice_file).data
             music == DecodeMusic(music_file).data
             test_music == GetSlice(ApplyGain(music, -2000), 0, Min(Len(voice), 5000))
             test_voice == GetSlice(voice, 0, Min(Len(voice), 5000))
         IN  [ret |-> test_export = "ok", raised |-> FALSE, tmp |-> 1,
              played |-> test_export = "ok",
              clip |-> Overlay(test_voice, test_music)]

\* ------------------------------------------------------------------ state

VARIABLES
    text_ok,            \* text.strip() is not empty
    use_music,          \* the "Add background music" checkbox
    uploaded_music,     \* the uploaded music file, NoUpload without one
    music_volume_pct,   \* the volume slider
    fade_in_enabled,
    fade_out_enabled,
    tmp_files,          \* temporary files on disk that the page created
    handler,            \* what the last run of the script was
    audio_out,          \* what the last run handed to st.audio
    download_out,       \* what the last run offered for download
    test_ret,           \* test_audio_files in the last run
    runs,               \* button presses so far
    mix_call,           \* the arguments of the last run's mix_with_music call
    mix_ret             \* what the call returned and did, NotCalled without one

widgets == <<text_ok, use_music, uploaded_music, music_volume_pct,
             fade_in_enabled, fade_out_enabled>>

outputs == <<handler, audio_out, download_out, test_ret, mix_call, mix_ret>>

vars == <<widgets, outputs, tmp_files, runs>>

NoUpload == AudioFile(FALSE, -1, 0, 0)

MixCall(voice, music, volume, fin, fout, export) ==
    [voice |-> voice, music |-> music, music_volume_pct |-> volume,
     fade_in |-> fin, fade_out |-> fout, export |-> export]

NoCall == MixCall(BadFile, BadFile, 0, FALSE, FALSE, "ok")

CallOf(c) ==
    mix_with_music(c.voice, c.music, c.music_volume_pct, c.fade_in, c.fade_out,
                   c.export)

ExportOutcomes == {"ok", "raise", "empty"}

\* ------------------------------------------------------------- the page

\* generate_tts raises, or leaves a file that is read later.
TtsOutcomes ==
    {[raised |-> TRUE, file |-> BadFile]}
        \cup {[raised |-> FALSE, file |-> f] :
                f \in {BadFile, AudioFile(TRUE, 0, 24000, 1),
                       AudioFile(TRUE, 3, 24000, 1)}}

MusicUploads ==
    {NoUpload, BadFile, AudioFile(TRUE, 0, 44100, 2), AudioFile(TRUE, 2, 44100, 2)}

SliderVolumes == {0, 30}

Init ==
    /\ text_ok = FALSE
    /\ use_music = FALSE
    /\ uploaded_music = NoUpload
    /\ music_volume_pct = 30
    /\ fade_in_enabled = FALSE
    /\ fade_out_enabled = FALSE
    /\ tmp_files = 0
    /\ handler = "none"
    /\ audio_out = {}
    /\ download_out = "none"
    /\ test_ret = "not called"
    /\ runs = 0
    /\ mix_call = NoCall
    /\ mix_ret = NotCalled

\* A run of the script with no button pressed renders no audio.
Rerun ==
    /\ handler' = "rerun"
    /\ audio_out' = {}
    /\ download_out' = "none"
    /\ test_ret' = "not called"
    /\ mix_call' = NoCall
    /\ mix_ret' = NotCalled
    /\ UNCHANGED <<tmp_files, runs>>

EditText ==
    /\ text_ok' = ~text_ok
    /\ UNCHANGED <<use_music, uploaded_music, music_volume_pct,
                   fade_in_enabled, fade_out_enabled>>
    /\ Rerun

\* Lines 132-141: without the checkbox the music widgets are not drawn and the
\* script's defaults stand; drawn anew they start from their own defaults.
ToggleMusic ==
    /\ use_music' = ~use_music
    /\ uploaded_music' = NoUpload
    /\ music_volume_pct' = 30
    /\ fade_in_enabled' = ~use_music
    /\ fade_out_enabled' = ~use_music
    /\ UNCHANGED text_ok
    /\ Rerun

UploadMusic ==
    /\ use_music
    /\ \E f \in MusicUploads : uploaded_music' = f
    /\ UNCHANGED <<text_ok, use_music, music_volume_pct, fade_in_enabled,
                   fade_out_enabled>>
    /\ Rerun

SetVolume ==
    /\ use_music
    /\ \E v \in SliderVolumes : music_volume_pct' = v
    /\ UNCHANGED <<text_ok, use_music, uploaded_music, fade_in_enabled,
                   fade_out_enabled>>
    /\ Rerun

SetFades ==
    /\ use_music
    /\ \E fin \in BOOLEAN, fout \in BOOLEAN :
          /\ fade_in_enabled' = fin
          /\ fade_out_enabled' = fout
    /\ UNCHANGED <<text_ok, use_music, uploaded_music, music_volume_pct>>
    /\ Rerun

\* Lines 175 and 213.
MusicRequested ==
    use_music /\ uploaded_music # NoUpload /\ music_volume_pct > 0

\* Lines 173, 193-194 and 211, 236-237: the file the run delivers.
FinalPathMixed(success) == "mixed"

FinalPath(success) == IF success THEN "mixed" ELSE "voice"

\* Lines 165-199.
Preview ==
    /\ runs < MaxRuns
    /\ runs' = runs + 1
    /\ handler' = "preview"
    /\ download_out' = "none"
    /\ test_ret' = "not called"
    /\ UNCHANGED widgets
    /\ \E tts \in TtsOutcomes, export \in ExportOutcomes :
         IF ~text_ok
         THEN /\ audio_out' = {}
              /\ mix_call' = NoCall
              /\ mix_ret' = NotCalled
              /\ UNCHANGED tmp_files
         ELSE IF tts.raised
         THEN /\ audio_out' = {}
              /\ mix_call' = NoCall
              /\ mix_ret' = NotCalled
              /\ tmp_files' = tmp_files + 1
         ELSE IF ~MusicRequested
         THEN /\ audio_out' = {"voice"}
              /\ mix_call' = NoCall
              /\ mix_ret' = NotCalled
              /\ tmp_files' = tmp_files + 1
         ELSE LET call == MixCall(tts.file, uploaded_music, music_volume_pct,
                                  fade_in_enabled, fade_out_enabled, export)
                  ret == CallOf(call)
              IN  /\ mix_call' = call
                  /\ mix_ret' = ret
                  /\ audio_out' = {FinalPath(ret.success)}
                  /\ tmp_files' = tmp_files + 3

\* Lines 203-250. test_checked is the "Test audio files first" checkbox.
Download ==
    /\ runs < MaxRuns
    /\ runs' = runs + 1
    /\ handler' = "download"
    /\ UNCHANGED widgets
    /\ \E tts \in TtsOutcomes, export \in ExportOutcomes,
          test_checked \in BOOLEAN, test_export \in {"ok", "raise"} :
         IF ~text_ok
         THEN /\ audio_out' = {}
              /\ download_out' = "none"
              /\ test_ret' = "not called"
              /\ mix_call' = NoCall
              /\ mix_ret' = NotCalled
              /\ UNCHANGED tmp_files
         ELSE IF tts.raised
         THEN /\ audio_out' = {}
              /\ download_out' = "none"
              /\ test_ret' = "not called"
              /\ mix_call' = NoCall
              /\ mix_ret' = NotCalled
              /\ tmp_files' = tmp_files + 1
         ELSE IF ~MusicRequested
         THEN /\ audio_out' = {}
              /\ download_out' = "voice"
              /\ test_ret' = "not called"
              /\ mix_call' = NoCall
              /\ mix_ret' = NotCalled
              /\ tmp_files' = tmp_files + 1
         ELSE LET t == test_audio_files(tts.file, uploaded_music, test_export)
                  call == MixCall(tts.file, uploaded_music, music_volume_pct,
                                  fade_in_enabled, fade_out_enabled, export)
                  ret == CallOf(call)
              IN  IF test_checked /\ t.raised
                  THEN /\ audio_out' = {}
                       /\ download_out' = "none"
                       /\ test_ret' = "raised"
                       /\ mix_call' = NoCall
                       /\ mix_ret' = NotCalled
                       /\ tmp_files' = tmp_files + 3 + t.tmp
                  ELSE /\ test_ret' = IF ~test_checked THEN "not called"
                                      ELSE IF t.ret THEN "ok" ELSE "failed"
                       /\ audio_out' = IF test_checked /\ t.played
                                       THEN {"test"} ELSE {}
                       /\ mix_call' = call
                       /\ mix_ret' = ret
                       /\ download_out' = FinalPath(ret.success)
                       /\ tmp_files' = tmp_files + 3
                                         + (IF test_checked THEN t.tmp ELSE 0)

Next ==
    \/ EditText
    \/ ToggleMusic
    \/ UploadMusic
    \/ SetVolume
    \/ SetFades
    \/ Preview
    \/ Download

Spec == Init /\ [][Next]_vars

\* ------------------------------------------- mix_with_music on its own

Lens(steps) == {k * LenStep : k \in 0..steps}

\* Timing: every pair of lengths with every fade setting.
TimingCalls ==
    {MixCall(AudioFile(TRUE, v, 24000, 1), AudioFile(TRUE, m, 24000, 1),
             30, fin, fout, "ok") :
        v \in Lens(MaxVoiceSteps), m \in Lens(MaxMusicSteps),
        fin \in BOOLEAN, fout \in BOOLEAN}

\* Settings: every volume, both music formats, every outcome of the decodes
\* and of the export, on short tracks.
SettingsVoices ==
    {BadFile, AudioFile(TRUE, 0, 24000, 1), AudioFile(TRUE, 4, 24000, 1)}

SettingsMusic ==
    {BadFile, AudioFile(TRUE, 0, 44100, 2), AudioFile(TRUE, 2, 44100, 2),
     AudioFile(TRUE, 3, 24000, 1), AudioFile(TRUE, 6, 24000, 2)}

SettingsCalls ==
    {MixCall(v, m, volume, fades, fades, export) :
        v \in SettingsVoices, m \in SettingsMusic, volume \in 0..100,
        fades \in BOOLEAN, export \in ExportOutcomes}

MixInit ==
    /\ mix_call \in TimingCalls \cup SettingsCalls
    /\ mix_ret = NotCalled
    /\ text_ok = TRUE
    /\ use_music = TRUE
    /\ uploaded_music = mix_call.music
    /\ music_volume_pct = mix_call.music_volume_pct
    /\ fade_in_enabled = mix_call.fade_in
    /\ fade_out_enabled = mix_call.fade_out
    /\ tmp_files = 0
    /\ handler = "none"
    /\ audio_out = {}
    /\ download_out = "none"
    /\ test_ret = "not called"
    /\ runs = 0

CallMix ==
    /\ handler = "none"
    /\ handler' = "mix"
    /\ mix_ret' = CallOf(mix_call)
    /\ UNCHANGED <<widgets, tmp_files, runs, audio_out, download_out, test_ret,
                   mix_call>>

MixNext == CallMix

MixSpec == MixInit /\ [][MixNext]_vars

\* ------------------------------------------------------------ the claims

Ran == mix_ret.error # "not called"

Step(name) == {k \in 1..Len(mix_ret.steps) : mix_ret.steps[k] = name}

\* Lines 72-90 ran: both tracks decoded, neither empty, volume not 0.
Overlaid == Ran /\ Step("overlay") # {}

VoiceLen == mix_call.voice.len

MusicLen == mix_call.music.len

\* C1: for non-empty voice and music and a volume in 1..100, with any fades,
\* the track mix_with_music produces has the voice's length (and its frame
\* rate and channels), whether the music was shorter, equal or longer.
C1_MixedHasVoiceLength ==
    (Overlaid /\ mix_call.music_volume_pct \in 1..100)
        => /\ Len(mix_ret.mixed.data) = VoiceLen
           /\ mix_ret.mixed.frame_rate = mix_call.voice.frame_rate
           /\ mix_ret.mixed.channels = mix_call.voice.channels

C1_Witness ==
    /\ Overlaid /\ mix_ret.success
    /\ MusicLen < VoiceLen /\ mix_ret.loops >= 2
    /\ mix_call.fade_in /\ mix_call.fade_out
    /\ Len(mix_ret.mixed.data) = VoiceLen

\* C2, as claimed: at volume 0 the mix is the voice unchanged, no library call
\* but the decodes and the export is made, and the outcome is the same
\* whatever the music file is.
C2_ZeroVolumeIgnoresMusic ==
    (Ran /\ mix_call.music_volume_pct = 0)
        => /\ mix_ret.success => mix_ret.mixed = DecodeVoice(mix_call.voice)
           /\ \A m \in SettingsMusic :
                CallOf([mix_call EXCEPT !.music = m]).success = mix_ret.success

\* C2, amended: at volume 0, when both files decode to non-empty tracks, the
\* mix is the voice unchanged, the only library calls are the two decodes and
\* the export, the call succeeds exactly when the export does, and the
\* outcome is the same for every music file that decodes to a non-empty
\* track; a music file that does not decode or is empty fails the call.
C2_ZeroVolumeReturnsVoice ==
    (Ran /\ mix_call.music_volume_pct = 0)
        => /\ (mix_call.voice.ok /\ VoiceLen > 0 /\ mix_call.music.ok /\ MusicLen > 0)
                => /\ mix_ret.steps = <<"decode_voice", "decode_music", "export">>
                   /\ mix_ret.mixed = DecodeVoice(mix_call.voice)
                   /\ mix_ret.success <=> mix_call.export = "ok"
                   /\ \A m \in SettingsMusic :
                        (m.ok /\ m.len > 0)
                            => CallOf([mix_call EXCEPT !.music = m]) = mix_ret
           /\ (~mix_call.music.ok \/ MusicLen = 0) => ~mix_ret.success

C2_Witness ==
    /\ Ran /\ mix_call.music_volume_pct = 0 /\ mix_ret.success
    /\ MusicLen > 0 /\ mix_call.music.frame_rate # mix_call.voice.frame_rate
    /\ mix_ret.mixed = DecodeVoice(mix_call.voice)

\* C3, as claimed: when the mix of a preview or download fails, the run plays
\* no audio and offers no download.
C3_FailedMixAborts ==
    (handler \in {"preview", "download"} /\ Ran /\ ~mix_ret.success)
        => audio_out = {} /\ download_out = "none"

\* C3, amended: when the mix of a preview or download fails, the mixed file is
\* never played or offered; the run goes on with the voice alone, which the
\* preview plays and the download offers.
C3_FailedMixFallsBackToVoice ==
    (handler \in {"preview", "download"} /\ Ran /\ ~mix_ret.success)
        => /\ "mixed" \notin audio_out
           /\ download_out # "mixed"
           /\ handler = "preview" => audio_out = {"voice"}
           /\ handler = "download" => download_out = "voice"

C3_Witness ==
    /\ handler = "download" /\ Ran /\ ~mix_ret.success
    /\ mix_ret.error = "exception" /\ mix_ret.written
    /\ download_out = "voice"

\* C4: when the voice or the music decodes to zero length, mix_with_music
\* fails before any step after the decodes, writes nothing to output_path,
\* and does so at every volume (0 too) and fade setting.
C4_EmptyInputFailsUpFront ==
    (Ran /\ mix_call.voice.ok
         /\ (VoiceLen = 0 \/ (mix_call.music.ok /\ MusicLen = 0)))
        => /\ ~mix_ret.success
           /\ ~mix_ret.written
           /\ \A k \in 1..Len(mix_ret.steps) :
                mix_ret.steps[k] \in {"decode_voice", "decode_music"}
           /\ mix_call.music.ok => mix_ret.error = "empty"

C4_Witness ==
    /\ Ran /\ mix_call.music_volume_pct = 0
    /\ mix_call.voice.ok /\ VoiceLen > 0 /\ mix_call.music.ok /\ MusicLen = 0
    /\ mix_ret.error = "empty"

\* C5, as claimed: no temporary file a preview, download or test created is
\* left on disk after the run.
C5_NoTemporaryFileRemains ==
    tmp_files = 0

\* C6: in a download, whatever test_audio_files did (success, a decode that
\* failed, an export that failed), mix_with_music is called afterwards with
\* the same voice and music, and returns what it returns for them.
C6_TestFailureDoesNotStopMix ==
    (handler = "download" /\ test_ret # "not called")
        => /\ test_ret \in {"ok", "failed"}
           /\ Ran
           /\ mix_call.music = uploaded_music
           /\ mix_ret = CallOf(mix_call)
           /\ download_out = FinalPath(mix_ret.success)

C6_Witness ==
    /\ handler = "download" /\ test_ret = "failed"
    /\ Ran /\ mix_ret.success /\ download_out = "mixed"

\* C7, as claimed: a music shorter than the voice is repeated
\* ceil(voice_length / music_length) times.
C7_LoopsCeilTimes ==
    (Overlaid /\ MusicLen < VoiceLen)
        => mix_ret.loops = (VoiceLen + MusicLen - 1) \div MusicLen

\* C7, amended: a music shorter than the voice is repeated
\* (voice_length // music_length) + 1 times, which is ceil(voice_length /
\* music_length) unless the voice length is an exact multiple of the music
\* length, and one more then; a music that is not shorter is not repeated.
\* Either way the result cut to the voice length is the periodic extension of
\* the gained music.
C7_LoopsFloorPlusOneTimes ==
    Overlaid
        => /\ MusicLen < VoiceLen
                => /\ mix_ret.loops = (VoiceLen \div MusicLen) + 1
                   /\ Step("loop") # {}
                   /\ mix_ret.loops >= (VoiceLen + MusicLen - 1) \div MusicLen
                   /\ (VoiceLen % MusicLen # 0)
                        => mix_ret.loops = (VoiceLen + MusicLen - 1) \div MusicLen
           /\ MusicLen >= VoiceLen => mix_ret.loops = 1 /\ Step("loop") = {}
           /\ Len(mix_ret.matched) = VoiceLen
           /\ \A i \in 1..VoiceLen :
                mix_ret.matched[i] =
                    [src |-> ((i - 1) % MusicLen) + 1,
                     gain |-> -3000 + 35 * mix_call.music_volume_pct,
                     fin |-> NoFade, fout |-> NoFade]

C7_Witness ==
    /\ Overlaid /\ mix_ret.success
    /\ MusicLen < VoiceLen /\ VoiceLen % MusicLen = 0
    /\ mix_ret.loops = (VoiceLen \div MusicLen) + 1
    /\ mix_ret.matched[VoiceLen].src = MusicLen

\* C8: with both fades on a duration-matched music longer than 6000 ms, the
\* fades come after the gain and the loop, only the first 3000 ms and the last
\* 3000 ms are scaled, every position between is the gained, looped and cut
\* music as it was, and the fade-out ramp ends at the last position.
C8_FadesTouchOnlyTheEnds ==
    (Overlaid /\ mix_call.fade_in /\ mix_call.fade_out /\ VoiceLen > 2 * FADE_MS)
        => /\ Len(mix_ret.music) = VoiceLen
           /\ \A i \in 1..VoiceLen :
                /\ mix_ret.music[i] =
                      IF i <= FADE_MS
                      THEN [mix_ret.matched[i] EXCEPT !.fin = i - 1]
                      ELSE IF i > VoiceLen - FADE_MS
                      THEN [mix_ret.matched[i] EXCEPT
                                !.fout = i - (VoiceLen - FADE_MS) - 1]
                      ELSE mix_ret.matched[i]
                /\ mix_ret.mixed.data[i] = <<i, mix_ret.music[i]>>
           /\ mix_ret.music[VoiceLen].fout = FADE_MS - 1
           /\ \A g \in Step("gain"), t \in Step("truncate"),
                 a \in Step("fade_in"), b \in Step("fade_out") :
                g < t /\ t < a /\ a < b
           /\ \A l \in Step("loop"), a \in Step("fade_in") : l < a

C8_Witness ==
    /\ Overlaid /\ mix_ret.success
    /\ mix_call.fade_in /\ mix_call.fade_out
    /\ VoiceLen > 2 * FADE_MS /\ mix_ret.loops >= 3
    /\ mix_ret.music[FADE_MS + 1] = mix_ret.matched[FADE_MS + 1]
    /\ mix_ret.music[VoiceLen].fout = FADE_MS - 1

\* C9, as claimed: on a duration-matched music shorter than 3000 ms the faded
\* track keeps its length, a fade-in is a linear ramp over the whole track
\* (position p of n is at p/n of the ramp) and so is a fade-out.
C9_ShortFadeSpansTheTrack ==
    (Overlaid /\ VoiceLen < FADE_MS /\ (mix_call.fade_in \/ mix_call.fade_out))
        => /\ Len(mix_ret.music) = VoiceLen
           /\ mix_call.fade_in
                => \A i \in 1..Len(mix_ret.music) :
                      mix_ret.music[i].fin * VoiceLen = (i - 1) * FADE_MS
           /\ mix_call.fade_out
                => \A i \in 1..Len(mix_ret.music) :
                      mix_ret.music[i].fout * VoiceLen = (i - 1) * FADE_MS

\* C10: for a volume in 1..100 the gain applied to the music is
\* -30 + 0.35 * volume dB (in hundredths: -3000 + 35 * volume): more than at
\* any lower volume, -12.5 dB at 50, +5 dB at 100 and never more, applied
\* once, before the loop and the fades.
C10_GainIsLinearInVolume ==
    (Overlaid /\ mix_call.music_volume_pct \in 1..100)
        => /\ \A i \in 1..Len(mix_ret.music) :
                /\ mix_ret.music[i].gain = -3000 + 35 * mix_call.music_volume_pct
                /\ mix_ret.music[i].gain <= 500
                /\ mix_call.music_volume_pct = 50 => mix_ret.music[i].gain = -1250
                /\ mix_call.music_volume_pct = 100 => mix_ret.music[i].gain = 500
                /\ \A w \in 1..100 :
                      w < mix_call.music_volume_pct
                          => VolumeDb(w) < mix_ret.music[i].gain
           /\ Cardinality(Step("gain")) = 1
           /\ \A g \in Step("gain"),
                 x \in Step("loop") \cup Step("truncate") \cup Step("fade_in")
                          \cup Step("fade_out") \cup Step("overlay") :
                g < x

C10_Witness ==
    /\ Overlaid /\ mix_ret.success
    /\ mix_call.music_volume_pct = 100
    /\ MusicLen < VoiceLen /\ mix_call.fade_in
    /\ mix_ret.music[1].gain = 500

====
